---- MODULE Spec2Model ----
(***************************************************************************)
(* Versioned file store of esp32-storage-driver.                           *)
(*                                                                         *)
(* The byte store is storage_esp (src/storage_esp.cpp); the version        *)
(* rotation engine is file_versioning (src/file_versioning.cpp), which     *)
(* reaches the byte store through its storage_callbacks.  The callbacks    *)
(* are bound to the storage_esp methods of the same name and signature     *)
(* (file_exists = exists, get_file_size = file_size, read_file,            *)
(* write_file, delete_file = erase_file).                                  *)
(***************************************************************************)
EXTENDS Integers, Sequences, FiniteSets, TLC

\* ------------------------------------------------------------------ bounds
\* History depth.  storage_config.h sets the macro to 5; it is a build-time
\* setting, and the model runs the same code with a smaller depth.
STORAGE_MAX_VERSION_HISTORY == 2
MaxVersion == 4          \* writes to a key stop once current_version reaches this
MaxFaults == 1           \* byte-store failures injected in one behaviour
MaxOps == 3              \* operations begun in one behaviour of the stepwise specification

\* ------------------------------------------------------- program constants
PolyHi == 60856          \* 0xEDB8, high half of 0xEDB88320
PolyLo == 33568          \* 0x8320, low half of 0xEDB88320
Half == 65536            \* 2^16: a uint32_t is kept as two 16-bit halves

H == STORAGE_MAX_VERSION_HISTORY
\* sizeof(file_versioning::file_version_metadata): four uint32_t and versions[H]
MetaSize == 4 * (4 + H)
\* sizeof(file_version_metadata) of storage_esp.h, which adds a timestamp field
SEMetaSize == 4 * (5 + H)

Keys == {"k1"}
Tasks == {"t1", "t2"}
Contents == {<< >>, <<65>>, <<65, 66>>}
Versions == 0..MaxVersion
Times == {1, 2}          \* epoch seconds a write may stamp on the record

VARIABLES
    is_mounted,   \* storage_esp::is_mounted
    fs,           \* the files of the mounted volume: path -> file
    faults,       \* number of injected byte-store failures so far
    okWrites,     \* per key: successful writes, while nothing else touched the key
    clean,        \* per key: only successful fault-free writes so far
    mutex,        \* holder of file_versioning::versioning_mutex, or "free"
    pc,           \* per task: position inside a stepwise operation
    loc,          \* per task: locals of the stepwise operation
    ops,          \* number of stepwise operations begun
    staleSave     \* a task saved a metadata copy that another task had superseded

taskVars == <<mutex, pc, loc, ops, staleSave>>
vars == <<is_mounted, fs, faults, okWrites, clean, mutex, pc, loc, ops, staleSave>>

\* ------------------------------------------------------------------- paths
\* the mount point handed to the constructor (STORAGE_DEFAULT_BASE_PATH)
base_path == "/littlefs"
STORAGE_VERSION_METADATA_EXT == ".meta"

\* storage_esp::get_full_path
get_full_path(relative_path) ==
    IF relative_path = "" THEN base_path
    ELSE IF Head(relative_path) # "/" THEN base_path \o "/" \o relative_path
    ELSE base_path \o relative_path

\* the object that holds the content of a key
CurPath(k) == get_full_path(k)
get_metadata_path(k) == get_full_path(k) \o STORAGE_VERSION_METADATA_EXT
\* snprintf(version_suffix, sizeof(version_suffix), ".v%d", version)
get_version_path(k, v) == get_full_path(k) \o ".v" \o ToString(v)
Paths == {CurPath(k) : k \in Keys} \cup {get_metadata_path(k) : k \in Keys}
         \cup {get_version_path(k, v) : k \in Keys, v \in Versions}

\* ------------------------------------------------------------------- files
NoFile == [kind |-> "none"]
Data(b) == [kind |-> "data", bytes |-> b]
MetaFile(md) == [kind |-> "meta", md |-> md]
SEMetaFile(md) == [kind |-> "semeta", md |-> md]
TruncFile == [kind |-> "trunc"]     \* a metadata object cut short by a failed write
\* a metadata object with bytes after one whole storage_esp record, e.g. one
\* written by a build with a deeper history
LongFile(md) == [kind |-> "long", md |-> md]

Prefix(s, n) == [i \in 1..n |-> s[i]]

\* file_version_metadata() : the default record
DefaultMeta ==
    [current_version |-> 0, file_size |-> 0, checksum |-> [hi |-> 0, lo |-> 0],
     version_count |-> 0, versions |-> [i \in 0..(H - 1) |-> 0]]

\* st_size of an object
FileLen(f) ==
    CASE f.kind = "none" -> 0
      [] f.kind = "data" -> Len(f.bytes)
      [] f.kind = "meta" -> MetaSize
      [] f.kind = "semeta" -> SEMetaSize
      [] f.kind = "trunc" -> MetaSize - 1
      [] f.kind = "long" -> SEMetaSize + 4

\* ------------------------------------------------------------- byte store
\* storage_esp::exists
file_exists(m, f, p) == m /\ f[p].kind # "none"

\* storage_esp::file_size
get_file_size(m, f, p) == IF m THEN FileLen(f[p]) ELSE 0

\* variant: a read that asks for the whole object is refused
read_file_strict(m, f, p, n, io) ==
    IF ~m \/ f[p].kind # "data" \/ io # "ok" \/ Len(f[p].bytes) <= n
    THEN [ok |-> FALSE, data |-> << >>]
    ELSE [ok |-> TRUE, data |-> Prefix(f[p].bytes, n)]

\* storage_esp::read_file : n bytes of a data object
read_file(m, f, p, n, io) ==
    IF ~m \/ f[p].kind # "data" \/ io # "ok" \/ Len(f[p].bytes) < n
    THEN [ok |-> FALSE, data |-> << >>]
    ELSE [ok |-> TRUE, data |-> Prefix(f[p].bytes, n)]

\* fread(data, 1, data_size, f) : the bytes of the object, as many as the
\* buffer takes, replace the front of the caller's buffer
fread(bytes, buf) == [i \in 1..Len(buf) |-> IF i <= Len(bytes) THEN bytes[i] ELSE buf[i]]

\* storage_esp::read_file seen from the caller: data_size is Len(buf), the
\* result is the return value and the buffer afterwards
read_file_into(m, f, p, buf, io) ==
    IF ~m \/ f[p].kind # "data" \/ io # "ok" THEN [ok |-> FALSE, buf |-> buf]
    ELSE [ok |-> Len(f[p].bytes) >= Len(buf), buf |-> fread(f[p].bytes, buf)]

\* storage_esp::write_file for content; io is the outcome of fopen/fwrite
\* ("short": fwrite stored one byte less than asked)
WriteOutcomes == {"ok", "open_fail", "short"}

write_file(m, f, p, d, io) ==
    IF ~m \/ io = "open_fail" THEN [ok |-> FALSE, fs |-> f]
    ELSE IF io = "ok" \/ Len(d) = 0 THEN [ok |-> TRUE, fs |-> [f EXCEPT ![p] = Data(d)]]
    ELSE [ok |-> FALSE, fs |-> [f EXCEPT ![p] = Data(Prefix(d, Len(d) - 1))]]

\* storage_esp::erase_file
delete_file(m, f, p, io) ==
    IF ~m \/ f[p].kind = "none" \/ io # "ok" THEN [ok |-> FALSE, fs |-> f]
    ELSE [ok |-> TRUE, fs |-> [f EXCEPT ![p] = NoFile]]

\* --------------------------------------------------------------- checksum
RECURSIVE Xor(_, _)
Xor(a, b) ==
    IF a = 0 THEN b
    ELSE IF b = 0 THEN a
    ELSE (((a % 2) + (b % 2)) % 2) + 2 * Xor(a \div 2, b \div 2)

\* one round of the inner loop: crc = (crc & 1) ? (crc >> 1) ^ polynomial : crc >> 1
CrcShift(c) ==
    LET sh == [hi |-> c.hi \div 2, lo |-> (c.lo \div 2) + ((c.hi % 2) * (Half \div 2))]
    IN  IF c.lo % 2 = 1 THEN [hi |-> Xor(sh.hi, PolyHi), lo |-> Xor(sh.lo, PolyLo)] ELSE sh

RECURSIVE CrcRounds(_, _)
CrcRounds(c, j) == IF j = 0 THEN c ELSE CrcRounds(CrcShift(c), j - 1)

RECURSIVE CrcBytes(_, _, _)
CrcBytes(c, data, i) ==
    IF i > Len(data) THEN c
    ELSE CrcBytes(CrcRounds([hi |-> c.hi, lo |-> Xor(c.lo, data[i])], 8), data, i + 1)

\* variant: the checksum without the final complement
calculate_crc32_raw(data) ==
    CrcBytes([hi |-> Half - 1, lo |-> Half - 1], data, 1)

\* file_versioning::calculate_crc32
calculate_crc32(data) ==
    LET c == CrcBytes([hi |-> Half - 1, lo |-> Half - 1], data, 1)
    IN  [hi |-> Xor(c.hi, Half - 1), lo |-> Xor(c.lo, Half - 1)]

\* storage_esp::_calculate_crc32 : the same loops over the same polynomial
_calculate_crc32(data) ==
    LET c == CrcBytes([hi |-> Half - 1, lo |-> Half - 1], data, 1)
    IN  [hi |-> Xor(c.hi, Half - 1), lo |-> Xor(c.lo, Half - 1)]

\* checksum of each content the model writes, evaluated once
CrcOf == [d \in Contents |-> calculate_crc32(d)]

\* --------------------------------------------------------------- metadata
\* file_versioning::load_metadata (always returns true; the record is the result)
load_metadata(m, f, k, io) ==
    LET p == get_metadata_path(k)
        meta_size == get_file_size(m, f, p)
    IN  IF meta_size = 0 \/ meta_size # MetaSize THEN DefaultMeta
        ELSE IF io # "ok" THEN DefaultMeta
        ELSE f[p].md

\* file_versioning::save_metadata
save_metadata(m, f, k, md, io) ==
    LET p == get_metadata_path(k)
    IN  IF ~m \/ io = "open_fail" THEN [ok |-> FALSE, fs |-> f]
        ELSE IF io = "ok" THEN [ok |-> TRUE, fs |-> [f EXCEPT ![p] = MetaFile(md)]]
        ELSE [ok |-> FALSE, fs |-> [f EXCEPT ![p] = TruncFile]]

\* ---------------------------------------------------- injected failures
\* One outcome per byte-store call site of an operation.
Sites == {"meta_read", "arch_meta_read", "arch_read", "arch_write", "evict_delete",
          "arch_meta_save", "hook_meta_save", "ver_read", "content_write",
          "cleanup_delete", "cleanup_meta_save", "unlink", "meta_save"}
WriteSites == {"arch_write", "arch_meta_save", "hook_meta_save", "content_write",
               "cleanup_meta_save", "meta_save"}
BadOutcomes(s) == IF s \in WriteSites THEN WriteOutcomes \ {"ok"} ELSE {"fail"}
AllOk == [s \in Sites |-> "ok"]

RECURSIVE FaultChoices(_, _)
FaultChoices(sites, n) ==
    IF n <= 0 THEN {AllOk}
    ELSE LET prev == FaultChoices(sites, n - 1)
         IN  prev \cup {[g EXCEPT ![s] = o] : g \in prev, <<s, o>> \in
                           UNION {{<<t, b>> : b \in BadOutcomes(t)} : t \in sites}}
NumFaults(F) == Cardinality({s \in Sites : F[s] # "ok"})

\* ------------------------------------------------------- rotation engine
RECURSIVE FindOldest(_, _, _, _)
\* the search loop of cleanup_oldest_version: index of the oldest version
FindOldest(vs, count, i, idx) ==
    IF i >= count THEN idx
    ELSE IF vs[i] < vs[idx] /\ vs[i] # 0 THEN FindOldest(vs, count, i + 1, i)
    ELSE FindOldest(vs, count, i + 1, idx)

\* the shift loop of cleanup_oldest_version
ShiftOut(vs, count, idx) ==
    [i \in DOMAIN vs |-> IF i = count - 1 THEN 0
                         ELSE IF i >= idx /\ i < count - 1 THEN vs[i + 1]
                         ELSE vs[i]]

\* file_versioning::cleanup_oldest_version
cleanup_oldest_version(m, f, k, md, io) ==
    IF md.version_count = 0 THEN [ok |-> FALSE, fs |-> f, md |-> md]
    ELSE LET oldest_index == FindOldest(md.versions, md.version_count, 1, 0)
             oldest_version == md.versions[oldest_index]
             d == delete_file(m, f, get_version_path(k, oldest_version), io)
         IN  IF d.ok
             THEN [ok |-> TRUE, fs |-> d.fs,
                   md |-> [md EXCEPT !.versions = ShiftOut(md.versions, md.version_count, oldest_index),
                                     !.version_count = md.version_count - 1]]
             ELSE [ok |-> FALSE, fs |-> d.fs, md |-> md]

\* an archive step that registers without looking for the number in the list
VersionExistsSkipped(md) == FALSE

\* the version_exists loop of archive_current_version
VersionExists(md) == \E i \in 0..(md.version_count - 1) : md.versions[i] = md.current_version

\* the "update version list" block of archive_current_version
RegisterVersion(m, f, k, md, F) ==
    IF md.version_count < STORAGE_MAX_VERSION_HISTORY
    THEN [fs |-> f,
          md |-> [md EXCEPT !.versions[md.version_count] = md.current_version,
                            !.version_count = md.version_count + 1]]
    ELSE LET c == cleanup_oldest_version(m, f, k, md, F["evict_delete"])
         IN  [fs |-> c.fs,
              md |-> [c.md EXCEPT !.versions[c.md.version_count - 1] = md.current_version]]

\* file_versioning::archive_current_version
archive_current_version(m, f, k, F) ==
    IF ~m \/ ~file_exists(m, f, CurPath(k)) THEN [ok |-> FALSE, fs |-> f, why |-> "no_file"]
    ELSE LET md == load_metadata(m, f, k, F["arch_meta_read"])
             file_size == get_file_size(m, f, CurPath(k))
             r == read_file(m, f, CurPath(k), file_size, F["arch_read"])
             w == write_file(m, f, get_version_path(k, md.current_version), r.data, F["arch_write"])
         IN  IF file_size = 0 THEN [ok |-> FALSE, fs |-> f, why |-> "empty"]
             ELSE IF ~r.ok THEN [ok |-> FALSE, fs |-> f, why |-> "copy_failed"]
             ELSE IF ~w.ok THEN [ok |-> FALSE, fs |-> w.fs, why |-> "copy_failed"]
             ELSE IF VersionExists(md) THEN [ok |-> TRUE, fs |-> w.fs, why |-> "ok"]
             ELSE LET g == RegisterVersion(m, w.fs, k, md, F)
                  IN  [ok |-> TRUE, why |-> "ok",
                       fs |-> save_metadata(m, g.fs, k, g.md, F["arch_meta_save"]).fs]

\* variant: the hook gives up when the archive of the existing content fails
on_before_write_abort(m, f, k, d, F) ==
    IF ~m THEN [ret |-> TRUE, fs |-> f, arch |-> "not_mounted", saved |-> FALSE]
    ELSE LET metadata == load_metadata(m, f, k, F["meta_read"])
             a == IF file_exists(m, f, CurPath(k)) THEN archive_current_version(m, f, k, F)
                  ELSE [ok |-> TRUE, fs |-> f, why |-> "no_file"]
             md2 == [metadata EXCEPT !.current_version = metadata.current_version + 1,
                                     !.file_size = Len(d),
                                     !.checksum = CrcOf[d]]
             s == save_metadata(m, a.fs, k, md2, F["hook_meta_save"])
         IN  IF ~a.ok THEN [ret |-> TRUE, fs |-> a.fs, arch |-> a.why, saved |-> FALSE]
             ELSE [ret |-> TRUE, fs |-> s.fs, arch |-> a.why, saved |-> s.ok]

\* file_versioning::on_before_write
on_before_write(m, f, k, d, F) ==
    IF ~m THEN [ret |-> TRUE, fs |-> f, arch |-> "not_mounted", saved |-> FALSE]
    ELSE LET metadata == load_metadata(m, f, k, F["meta_read"])
             a == IF file_exists(m, f, CurPath(k)) THEN archive_current_version(m, f, k, F)
                  ELSE [ok |-> FALSE, fs |-> f, why |-> "no_file"]
             md2 == [metadata EXCEPT !.current_version = metadata.current_version + 1,
                                     !.file_size = Len(d),
                                     !.checksum = CrcOf[d]]
             s == save_metadata(m, a.fs, k, md2, F["hook_meta_save"])
         IN  [ret |-> TRUE, fs |-> s.fs, arch |-> a.why, saved |-> s.ok]

\* variant: the query reports the history length instead of the version
get_file_version_count(m, f, k) ==
    IF ~m \/ ~file_exists(m, f, CurPath(k)) THEN 0
    ELSE load_metadata(m, f, k, "ok").version_count

\* file_versioning::get_file_version
get_file_version(m, f, k) ==
    IF ~m \/ ~file_exists(m, f, CurPath(k)) THEN 0
    ELSE load_metadata(m, f, k, "ok").current_version

\* file_versioning::get_file_version_info : the return value and the info it fills
get_file_version_info(m, f, k) ==
    IF ~m \/ ~file_exists(m, f, CurPath(k)) THEN [ok |-> FALSE, version |-> 0, size |-> 0]
    ELSE LET metadata == load_metadata(m, f, k, "ok")
         IN  [ok |-> TRUE, version |-> metadata.current_version, size |-> metadata.file_size]

\* variant: the query compares for inequality
file_has_changed_ne(m, f, k, last_known_version) ==
    IF ~m \/ ~file_exists(m, f, CurPath(k)) THEN FALSE
    ELSE load_metadata(m, f, k, "ok").current_version # last_known_version

\* file_versioning::file_has_changed
file_has_changed(m, f, k, last_known_version) ==
    IF ~m \/ ~file_exists(m, f, CurPath(k)) THEN FALSE
    ELSE load_metadata(m, f, k, "ok").current_version > last_known_version

\* the entries of list_file_versions before the sort: the current version,
\* then the history entries i = from .. version_count - 1 that are not 0 and
\* whose object has a size
RECURSIVE HistoricalEntries(_, _, _, _, _)
HistoricalEntries(m, f, k, md, from) ==
    IF from >= md.version_count THEN << >>
    ELSE LET version_num == md.versions[from]
             version_size == get_file_size(m, f, get_version_path(k, version_num))
             rest == HistoricalEntries(m, f, k, md, from + 1)
         IN  IF version_num # 0 /\ version_size > 0
             THEN <<[version |-> version_num, size |-> version_size, is_current |-> FALSE]>> \o rest
             ELSE rest

\* std::sort(versions.begin(), versions.end(), a.version > b.version) : every
\* arrangement of the entries in which no entry precedes one with a greater
\* version; entries with equal versions may come out in either order
SortNewestFirst(u) ==
    LET n == Len(u)
        Perms == {p \in [1..n -> 1..n] : \A i, j \in 1..n : i # j => p[i] # p[j]}
    IN  {[i \in 1..n |-> u[p[i]]] : p \in
            {q \in Perms : \A i \in 1..(n - 1) : u[q[i]].version >= u[q[i + 1]].version}}

\* variant: the listing does not ask whether the key exists
list_file_versions_any(m, f, k) ==
    IF ~m THEN {<< >>}
    ELSE LET metadata == load_metadata(m, f, k, "ok")
             current == [version |-> metadata.current_version, size |-> metadata.file_size,
                         is_current |-> TRUE]
         IN  SortNewestFirst(<<current>> \o HistoricalEntries(m, f, k, metadata, 0))

\* file_versioning::list_file_versions : the set of vectors it may return
list_file_versions(m, f, k) ==
    IF ~m \/ ~file_exists(m, f, CurPath(k)) THEN {<< >>}
    ELSE LET metadata == load_metadata(m, f, k, "ok")
             current == [version |-> metadata.current_version, size |-> metadata.file_size,
                         is_current |-> TRUE]
         IN  SortNewestFirst(<<current>> \o HistoricalEntries(m, f, k, metadata, 0))

\* variant: the read does not ask whether the store is mounted
read_file_version_unmounted(m, f, k, version, data_size) ==
    LET file_path == IF version = 0 THEN CurPath(k) ELSE get_version_path(k, version)
    IN  read_file(TRUE, f, file_path, data_size, "ok")

\* file_versioning::read_file_version
read_file_version(m, f, k, version, data_size) ==
    IF ~m THEN [ok |-> FALSE, data |-> << >>]
    ELSE LET file_path == IF version = 0 THEN CurPath(k) ELSE get_version_path(k, version)
         IN  read_file(m, f, file_path, data_size, "ok")

\* file_versioning::read_file_version seen from the caller
read_file_version_into(m, f, k, version, buf) ==
    IF ~m THEN [ok |-> FALSE, buf |-> buf]
    ELSE LET file_path == IF version = 0 THEN CurPath(k) ELSE get_version_path(k, version)
         IN  read_file_into(m, f, file_path, buf, "ok")

\* variant: the restore does not look at the size or the read result of the
\* version object and writes whatever its buffer holds
restore_file_version_unchecked(m, f, k, version, F) ==
    IF ~m THEN [ok |-> FALSE, fs |-> f]
    ELSE LET version_path == get_version_path(k, version)
             version_size == get_file_size(m, f, version_path)
             r == read_file(m, f, version_path, version_size, F["ver_read"])
         IN  write_file(m, f, CurPath(k), r.data, F["content_write"])

\* file_versioning::restore_file_version
restore_file_version(m, f, k, version, F) ==
    IF ~m THEN [ok |-> FALSE, fs |-> f]
    ELSE LET version_path == get_version_path(k, version)
             version_size == get_file_size(m, f, version_path)
             r == read_file(m, f, version_path, version_size, F["ver_read"])
         IN  IF version_size = 0 THEN [ok |-> FALSE, fs |-> f]
             ELSE IF ~r.ok THEN [ok |-> FALSE, fs |-> f]
             ELSE write_file(m, f, CurPath(k), r.data, F["content_write"])

RECURSIVE CleanupLoop(_, _, _, _, _, _)
\* the while loop of cleanup_old_versions
CleanupLoop(m, f, k, md, n, io) ==
    IF md.version_count > STORAGE_MAX_VERSION_HISTORY
    THEN LET c == cleanup_oldest_version(m, f, k, md, io)
         IN  IF c.ok THEN CleanupLoop(m, c.fs, k, c.md, n + 1, io)
             ELSE [fs |-> c.fs, md |-> md, n |-> n]
    ELSE [fs |-> f, md |-> md, n |-> n]

\* file_versioning::cleanup_old_versions
cleanup_old_versions(m, f, k, F) ==
    IF ~m THEN [n |-> 0, fs |-> f]
    ELSE LET l == CleanupLoop(m, f, k, load_metadata(m, f, k, F["meta_read"]), 0, F["cleanup_delete"])
         IN  IF l.n > 0 THEN [n |-> l.n, fs |-> save_metadata(m, l.fs, k, l.md, F["cleanup_meta_save"]).fs]
             ELSE [n |-> 0, fs |-> l.fs]

\* the query methods of the engine
Queries == {"get_file_version", "get_file_version_info", "list_file_versions",
            "file_has_changed", "read_file_version"}

\* variant: a query that finds no metadata object persists the default record
after_query_repair(m, f, k, q) ==
    IF m /\ q # "read_file_version" /\ get_file_size(m, f, get_metadata_path(k)) = 0
    THEN save_metadata(m, f, k, DefaultMeta, "ok").fs
    ELSE f

\* the byte store after query q on key k: the queries reach the store only
\* through is_mounted, file_exists, get_file_size and read_file (directly and
\* in load_metadata), none of which writes or deletes an object
after_query(m, f, k, q) == f

\* the persisted record of a key, as the engine loads it
Persisted(f, k) == load_metadata(TRUE, f, k, "ok")

\* ------------------------------------------------------------ operations
WriteFaultSites == {"meta_read", "arch_meta_read", "arch_read", "arch_write", "evict_delete",
                    "arch_meta_save", "hook_meta_save", "content_write"}
RestoreFaultSites == {"ver_read", "content_write"}
ArchiveFaultSites == {"arch_meta_read", "arch_read", "arch_write", "evict_delete", "arch_meta_save"}
CleanupFaultSites == {"meta_read", "cleanup_delete", "cleanup_meta_save"}

\* the failure patterns an operation may meet, by remaining budget
WriteFaults == [n \in 0..MaxFaults |-> FaultChoices(WriteFaultSites, n)]
RestoreFaults == [n \in 0..MaxFaults |-> FaultChoices(RestoreFaultSites, n)]
ArchiveFaults == [n \in 0..MaxFaults |-> FaultChoices(ArchiveFaultSites, n)]
CleanupFaults == [n \in 0..MaxFaults |-> FaultChoices(CleanupFaultSites, n)]
EraseFaults == [n \in 0..MaxFaults |-> FaultChoices({"unlink"}, n)]

Idle == [op |-> "idle", key |-> "k1", data |-> << >>, md |-> DefaultMeta, amd |-> DefaultMeta,
         buf |-> << >>, mdStale |-> FALSE, amdStale |-> FALSE]

Init ==
    /\ is_mounted = FALSE
    /\ fs = [p \in Paths |-> NoFile]
    /\ faults = 0
    /\ okWrites = [k \in Keys |-> 0]
    /\ clean = [k \in Keys |-> TRUE]
    /\ mutex = "free"
    /\ pc = [t \in Tasks |-> "idle"]
    /\ loc = [t \in Tasks |-> Idle]
    /\ ops = 0
    /\ staleSave = FALSE

Touched(k) ==
    /\ okWrites' = [okWrites EXCEPT ![k] = 0]
    /\ clean' = [clean EXCEPT ![k] = FALSE]

\* storage_esp::mount
Mount(ok) ==
    /\ ~is_mounted
    /\ is_mounted' = ok
    /\ UNCHANGED <<fs, faults, okWrites, clean, taskVars>>

\* storage_esp::unmount
Unmount(ok) ==
    /\ is_mounted
    /\ is_mounted' = ~ok
    /\ UNCHANGED <<fs, faults, okWrites, clean, taskVars>>

\* write(key, bytes): the hook on_before_write, then the byte-store write
write(m, f, k, d, F) ==
    LET h == on_before_write(m, f, k, d, F)
    IN  write_file(m, h.fs, CurPath(k), d, F["content_write"])

Write(k, d, F) ==
    /\ load_metadata(is_mounted, fs, k, "ok").current_version < MaxVersion
    /\ LET w == write(is_mounted, fs, k, d, F)
       IN  /\ fs' = w.fs
           /\ IF w.ok /\ F = AllOk /\ clean[k]
              THEN /\ okWrites' = [okWrites EXCEPT ![k] = @ + 1]
                   /\ clean' = clean
              ELSE Touched(k)
    /\ faults' = faults + NumFaults(F)
    /\ UNCHANGED <<is_mounted, taskVars>>

\* restore(key, version)
Restore(k, v, F) ==
    /\ fs' = restore_file_version(is_mounted, fs, k, v, F).fs
    /\ Touched(k)
    /\ faults' = faults + NumFaults(F)
    /\ UNCHANGED <<is_mounted, taskVars>>

\* a direct call of the public archive_current_version
Archive(k, F) ==
    /\ fs' = archive_current_version(is_mounted, fs, k, F).fs
    /\ Touched(k)
    /\ faults' = faults + NumFaults(F)
    /\ UNCHANGED <<is_mounted, taskVars>>

\* cleanup(key)
Cleanup(k, F) ==
    /\ fs' = cleanup_old_versions(is_mounted, fs, k, F).fs
    /\ Touched(k)
    /\ faults' = faults + NumFaults(F)
    /\ UNCHANGED <<is_mounted, taskVars>>

\* storage_esp::erase_file on the unsuffixed key
Erase(k, F) ==
    /\ fs' = delete_file(is_mounted, fs, CurPath(k), F["unlink"]).fs
    /\ Touched(k)
    /\ faults' = faults + NumFaults(F)
    /\ UNCHANGED <<is_mounted, taskVars>>

Next ==
    \/ \E ok \in BOOLEAN : Mount(ok)
    \/ \E ok \in BOOLEAN : Unmount(ok)
    \/ \E k \in Keys, d \in Contents, F \in WriteFaults[MaxFaults - faults] : Write(k, d, F)
    \/ \E k \in Keys, v \in Versions, F \in RestoreFaults[MaxFaults - faults] : Restore(k, v, F)
    \/ \E k \in Keys, F \in ArchiveFaults[MaxFaults - faults] : Archive(k, F)
    \/ \E k \in Keys, F \in CleanupFaults[MaxFaults - faults] : Cleanup(k, F)
    \/ \E k \in Keys, F \in EraseFaults[MaxFaults - faults] : Erase(k, F)

Spec == Init /\ [][Next]_vars

\* ------------------------------------------------ stepwise operations
\* The same operations, one byte-store step at a time, run by tasks.  Only
\* on_before_write takes versioning_mutex (file_versioning.cpp:299-301); the
\* other public methods run without it.
InFlight(u) == pc[u] # "idle"
HoldsMd(u) == pc[u] \in {"a_load", "a_write", "a_register", "w_save", "c_loop"}
                 /\ loc[u].op \in {"write", "cleanup"}
HoldsAmd(u) == pc[u] \in {"a_write", "a_register"}

\* the locals of the other tasks after task t saved the metadata of key k
Superseded(u, k) ==
    IF loc[u].key = k
    THEN [loc[u] EXCEPT !.mdStale = @ \/ HoldsMd(u), !.amdStale = @ \/ HoldsAmd(u)]
    ELSE loc[u]
Locals(t, own, k, saved) ==
    [u \in Tasks |-> IF u = t THEN own ELSE IF saved THEN Superseded(u, k) ELSE loc[u]]

\* archive_current_version up to the read of the current content
ArchStart(m, f, k) ==
    LET md == load_metadata(m, f, k, "ok")
        file_size == get_file_size(m, f, CurPath(k))
        r == read_file(m, f, CurPath(k), file_size, "ok")
    IN  IF ~m \/ ~file_exists(m, f, CurPath(k)) \/ file_size = 0 \/ ~r.ok
        THEN [go |-> FALSE, amd |-> DefaultMeta, buf |-> << >>]
        ELSE [go |-> TRUE, amd |-> md, buf |-> r.data]

AfterArchive(t) == IF loc[t].op = "write" THEN "w_save" ELSE "idle"
Finished(t, next) == IF next = "idle" THEN Idle ELSE loc[t]

\* on_before_write: take the mutex, load the metadata
BeginWrite(t, k, d) ==
    /\ pc[t] = "idle" /\ ops < MaxOps /\ mutex = "free"
    /\ Persisted(fs, k).current_version < MaxVersion
    /\ ops' = ops + 1
    /\ IF ~is_mounted
       THEN /\ mutex' = "free"
            /\ pc' = [pc EXCEPT ![t] = "w_content"]
            /\ loc' = [loc EXCEPT ![t] = [Idle EXCEPT !.op = "write", !.key = k, !.data = d]]
       ELSE /\ mutex' = t
            /\ pc' = [pc EXCEPT ![t] = IF file_exists(is_mounted, fs, CurPath(k))
                                       THEN "a_load" ELSE "w_save"]
            /\ loc' = [loc EXCEPT ![t] = [Idle EXCEPT !.op = "write", !.key = k, !.data = d,
                                                      !.md = load_metadata(is_mounted, fs, k, "ok")]]
    /\ UNCHANGED <<is_mounted, fs, faults, okWrites, clean, staleSave>>

\* archive_current_version called by on_before_write: load, read the content
ArchLoad(t) ==
    /\ pc[t] = "a_load"
    /\ LET a == ArchStart(is_mounted, fs, loc[t].key)
       IN  /\ pc' = [pc EXCEPT ![t] = IF a.go THEN "a_write" ELSE AfterArchive(t)]
           /\ loc' = [loc EXCEPT ![t] = [@ EXCEPT !.amd = a.amd, !.buf = a.buf, !.amdStale = FALSE]]
    /\ UNCHANGED <<is_mounted, fs, faults, okWrites, clean, mutex, ops, staleSave>>

\* a direct call of archive_current_version: load, read the content
BeginArchive(t, k) ==
    /\ pc[t] = "idle" /\ ops < MaxOps
    /\ ops' = ops + 1
    /\ LET a == ArchStart(is_mounted, fs, k)
       IN  IF a.go
           THEN /\ pc' = [pc EXCEPT ![t] = "a_write"]
                /\ loc' = [loc EXCEPT ![t] = [Idle EXCEPT !.op = "archive", !.key = k,
                                                          !.amd = a.amd, !.buf = a.buf]]
           ELSE UNCHANGED <<pc, loc>>
    /\ UNCHANGED <<is_mounted, fs, faults, okWrites, clean, mutex, staleSave>>

\* archive_current_version: write the archive object
ArchWrite(t) ==
    /\ pc[t] = "a_write"
    /\ LET w == write_file(is_mounted, fs, get_version_path(loc[t].key, loc[t].amd.current_version),
                           loc[t].buf, "ok")
           next == IF w.ok THEN "a_register" ELSE AfterArchive(t)
       IN  /\ fs' = w.fs
           /\ pc' = [pc EXCEPT ![t] = next]
           /\ loc' = [loc EXCEPT ![t] = Finished(t, next)]
    /\ UNCHANGED <<is_mounted, faults, okWrites, clean, mutex, ops, staleSave>>

\* archive_current_version: update the version list and save it
ArchRegister(t) ==
    /\ pc[t] = "a_register"
    /\ LET k == loc[t].key
           amd == loc[t].amd
           g == RegisterVersion(is_mounted, fs, k, amd, AllOk)
           next == AfterArchive(t)
       IN  /\ pc' = [pc EXCEPT ![t] = next]
           /\ IF VersionExists(amd)
              THEN /\ loc' = [loc EXCEPT ![t] = Finished(t, next)]
                   /\ UNCHANGED <<fs, staleSave>>
              ELSE /\ fs' = save_metadata(is_mounted, g.fs, k, g.md, "ok").fs
                   /\ staleSave' = (staleSave \/ loc[t].amdStale)
                   /\ loc' = Locals(t, Finished(t, next), k, TRUE)
    /\ UNCHANGED <<is_mounted, faults, okWrites, clean, mutex, ops>>

\* on_before_write: bump the version, save the metadata, release the mutex
HookSave(t) ==
    /\ pc[t] = "w_save"
    /\ LET k == loc[t].key
           md2 == [loc[t].md EXCEPT !.current_version = loc[t].md.current_version + 1,
                                    !.file_size = Len(loc[t].data),
                                    !.checksum = CrcOf[loc[t].data]]
       IN  /\ fs' = save_metadata(is_mounted, fs, k, md2, "ok").fs
           /\ staleSave' = (staleSave \/ loc[t].mdStale)
           /\ loc' = Locals(t, [loc[t] EXCEPT !.md = md2], k, TRUE)
    /\ mutex' = "free"
    /\ pc' = [pc EXCEPT ![t] = "w_content"]
    /\ UNCHANGED <<is_mounted, faults, okWrites, clean, ops>>

\* the byte-store write of the new content, after the hook returned
WriteContent(t) ==
    /\ pc[t] = "w_content"
    /\ fs' = write_file(is_mounted, fs, CurPath(loc[t].key), loc[t].data, "ok").fs
    /\ pc' = [pc EXCEPT ![t] = "idle"]
    /\ loc' = [loc EXCEPT ![t] = Idle]
    /\ UNCHANGED <<is_mounted, faults, okWrites, clean, mutex, ops, staleSave>>

\* restore_file_version: read the archived version
BeginRestore(t, k, v) ==
    /\ pc[t] = "idle" /\ ops < MaxOps
    /\ ops' = ops + 1
    /\ LET version_path == get_version_path(k, v)
           version_size == get_file_size(is_mounted, fs, version_path)
           r == read_file(is_mounted, fs, version_path, version_size, "ok")
       IN  IF is_mounted /\ version_size # 0 /\ r.ok
           THEN /\ pc' = [pc EXCEPT ![t] = "r_write"]
                /\ loc' = [loc EXCEPT ![t] = [Idle EXCEPT !.op = "restore", !.key = k, !.buf = r.data]]
           ELSE UNCHANGED <<pc, loc>>
    /\ UNCHANGED <<is_mounted, fs, faults, okWrites, clean, mutex, staleSave>>

\* restore_file_version: write the version as the current content
RestoreWrite(t) ==
    /\ pc[t] = "r_write"
    /\ fs' = write_file(is_mounted, fs, CurPath(loc[t].key), loc[t].buf, "ok").fs
    /\ pc' = [pc EXCEPT ![t] = "idle"]
    /\ loc' = [loc EXCEPT ![t] = Idle]
    /\ UNCHANGED <<is_mounted, faults, okWrites, clean, mutex, ops, staleSave>>

\* cleanup_old_versions: load the metadata
BeginCleanup(t, k) ==
    /\ pc[t] = "idle" /\ ops < MaxOps
    /\ is_mounted
    /\ ops' = ops + 1
    /\ pc' = [pc EXCEPT ![t] = "c_loop"]
    /\ loc' = [loc EXCEPT ![t] = [Idle EXCEPT !.op = "cleanup", !.key = k,
                                              !.md = load_metadata(is_mounted, fs, k, "ok")]]
    /\ UNCHANGED <<is_mounted, fs, faults, okWrites, clean, mutex, staleSave>>

\* cleanup_old_versions: the eviction loop and the save
CleanupFinish(t) ==
    /\ pc[t] = "c_loop"
    /\ LET k == loc[t].key
           l == CleanupLoop(is_mounted, fs, k, loc[t].md, 0, "ok")
       IN  IF l.n > 0
           THEN /\ fs' = save_metadata(is_mounted, l.fs, k, l.md, "ok").fs
                /\ staleSave' = (staleSave \/ loc[t].mdStale)
                /\ loc' = Locals(t, Idle, k, TRUE)
           ELSE /\ fs' = l.fs
                /\ loc' = [loc EXCEPT ![t] = Idle]
                /\ UNCHANGED staleSave
    /\ pc' = [pc EXCEPT ![t] = "idle"]
    /\ UNCHANGED <<is_mounted, faults, okWrites, clean, mutex, ops>>

NextSteps ==
    \/ \E ok \in BOOLEAN : Mount(ok)
    \/ \E t \in Tasks, k \in Keys, d \in Contents : BeginWrite(t, k, d)
    \/ \E t \in Tasks : ArchLoad(t)
    \/ \E t \in Tasks, k \in Keys : BeginArchive(t, k)
    \/ \E t \in Tasks : ArchWrite(t)
    \/ \E t \in Tasks : ArchRegister(t)
    \/ \E t \in Tasks : HookSave(t)
    \/ \E t \in Tasks : WriteContent(t)
    \/ \E t \in Tasks, k \in Keys, v \in Versions : BeginRestore(t, k, v)
    \/ \E t \in Tasks : RestoreWrite(t)
    \/ \E t \in Tasks, k \in Keys : BeginCleanup(t, k)
    \/ \E t \in Tasks : CleanupFinish(t)

SpecSteps == Init /\ [][NextSteps]_vars

\* ============================================ storage_esp's own engine
\* storage_esp.cpp carries a second copy of the rotation engine, working on
\* the files directly (stat, fopen, fread, fwrite, unlink) and on a record
\* that its caller passes by reference.

\* file_version_metadata() of storage_esp.h : the default record
file_version_metadata ==
    [current_version |-> 0, timestamp |-> 0, file_size |-> 0, checksum |-> [hi |-> 0, lo |-> 0],
     version_count |-> 0, versions |-> [i \in 0..(H - 1) |-> 0]]

\* storage_esp::_get_metadata_path, storage_esp::_get_version_path
_get_metadata_path(k) == get_full_path(k) \o STORAGE_VERSION_METADATA_EXT
_get_version_path(k, v) == get_full_path(k) \o ".v" \o ToString(v)

\* storage_esp::_load_metadata : defaults when fopen fails or fread gets less
\* than one whole record
_load_metadata(m, f, k, io) ==
    LET p == _get_metadata_path(k)
    IN  IF ~m \/ f[p].kind = "none" \/ io # "ok" THEN file_version_metadata
        ELSE IF FileLen(f[p]) < SEMetaSize THEN file_version_metadata
        ELSE f[p].md

\* storage_esp::_save_metadata
_save_metadata(m, f, k, md, io) ==
    LET p == _get_metadata_path(k)
    IN  IF ~m \/ io = "open_fail" THEN [ok |-> FALSE, fs |-> f]
        ELSE IF io = "ok" THEN [ok |-> TRUE, fs |-> [f EXCEPT ![p] = SEMetaFile(md)]]
        ELSE [ok |-> FALSE, fs |-> [f EXCEPT ![p] = TruncFile]]

\* metadata.versions[i] as the code reads it: slot STORAGE_MAX_VERSION_HISTORY
\* and beyond lie outside the array, and a read there yields whatever the
\* neighbouring memory holds (junk)
Slots(md, junk) == [i \in 0..H |-> IF i < H THEN md.versions[i] ELSE junk]

\* storage_esp::_cleanup_oldest_version ; store is the index its
\* "versions[version_count - 1] = 0" wrote to, -1 when it wrote nothing
_cleanup_oldest_version(m, f, k, md, junk, io) ==
    IF md.version_count = 0 THEN [ok |-> FALSE, fs |-> f, md |-> md, store |-> -1]
    ELSE LET vs == Slots(md, junk)
             oldest_index == FindOldest(vs, md.version_count, 1, 0)
             oldest_version == vs[oldest_index]
             d == delete_file(m, f, _get_version_path(k, oldest_version), io)
             shifted == ShiftOut(vs, md.version_count, oldest_index)
         IN  IF d.ok
             THEN [ok |-> TRUE, fs |-> d.fs, store |-> md.version_count - 1,
                   md |-> [md EXCEPT !.versions = [i \in 0..(H - 1) |-> shifted[i]],
                                     !.version_count = md.version_count - 1]]
             ELSE [ok |-> FALSE, fs |-> d.fs, md |-> md, store |-> -1]

\* "metadata.versions[index] = value" : inside the array the slot changes,
\* outside it the record's own fields keep their values
StoreVersion(md, index, value) ==
    IF index \in 0..(H - 1) THEN [md EXCEPT !.versions[index] = value] ELSE md

\* storage_esp::_archive_current_version ; store is the index the version
\* was registered at, -1 when nothing was registered
_archive_current_version(m, f, k, metadata, F) ==
    LET current_path == CurPath(k)
        archive_path == _get_version_path(k, metadata.current_version)
        st_size == get_file_size(m, f, current_path)
        r == read_file(m, f, current_path, st_size, F["arch_read"])
        w == write_file(m, f, archive_path, r.data, F["arch_write"])
        c == _cleanup_oldest_version(m, w.fs, k, metadata, 0, F["evict_delete"])
    IN  IF ~file_exists(m, f, current_path) \/ ~r.ok
        THEN [ok |-> FALSE, fs |-> f, md |-> metadata, store |-> -1]
        ELSE IF ~w.ok
        THEN [ok |-> FALSE, md |-> metadata, store |-> -1,
              fs |-> IF F["arch_write"] = "short" THEN delete_file(m, w.fs, archive_path, "ok").fs
                     ELSE w.fs]
        ELSE IF VersionExists(metadata)
        THEN [ok |-> TRUE, fs |-> w.fs, md |-> metadata, store |-> -1]
        ELSE IF metadata.version_count < STORAGE_MAX_VERSION_HISTORY
        THEN [ok |-> TRUE, fs |-> w.fs, store |-> metadata.version_count,
              md |-> [StoreVersion(metadata, metadata.version_count, metadata.current_version)
                         EXCEPT !.version_count = metadata.version_count + 1]]
        ELSE [ok |-> TRUE, fs |-> c.fs, store |-> c.md.version_count,
              md |-> [StoreVersion(c.md, c.md.version_count, metadata.current_version)
                         EXCEPT !.version_count = c.md.version_count + 1]]

\* storage_esp::read_file_version seen from the caller
se_read_file_version(m, f, k, version, buf) ==
    IF ~m THEN [ok |-> FALSE, buf |-> buf]
    ELSE LET file_path == IF version = 0 THEN CurPath(k) ELSE _get_version_path(k, version)
         IN  IF f[file_path].kind # "data" THEN [ok |-> FALSE, buf |-> buf]
             ELSE [ok |-> Len(f[file_path].bytes) >= Len(buf),
                   buf |-> fread(f[file_path].bytes, buf)]

\* what a store outside the array may lead to: the run carries on with the
\* neighbouring memory overwritten, or the device resets
StoreOutcomes == {"continue", "reset"}

\* write(key, bytes) with the built-in engine: load, archive the existing
\* content, write the bytes, then bump and persist the record ; store is the
\* index at which the archive registered the replaced version
write_versioned(m, f, k, d, ts, ub, F) ==
    IF ~m THEN [ok |-> FALSE, fs |-> f, reset |-> FALSE, store |-> -1]
    ELSE LET metadata == _load_metadata(m, f, k, F["meta_read"])
             a == IF file_exists(m, f, CurPath(k)) THEN _archive_current_version(m, f, k, metadata, F)
                  ELSE [ok |-> FALSE, fs |-> f, md |-> metadata, store |-> -1]
             w == write_file(m, a.fs, CurPath(k), d, F["content_write"])
             md2 == [a.md EXCEPT !.current_version = a.md.current_version + 1,
                                 !.file_size = Len(d),
                                 !.checksum = CrcOf[d],
                                 !.timestamp = ts]
         IN  IF a.store >= STORAGE_MAX_VERSION_HISTORY /\ ub = "reset"
             THEN [ok |-> FALSE, fs |-> a.fs, reset |-> TRUE, store |-> a.store]
             ELSE IF ~w.ok THEN [ok |-> FALSE, fs |-> w.fs, reset |-> FALSE, store |-> a.store]
             ELSE [ok |-> TRUE, fs |-> _save_metadata(m, w.fs, k, md2, F["meta_save"]).fs,
                   reset |-> FALSE, store |-> a.store]

RECURSIVE SECleanupLoop(_, _, _, _, _, _, _)
\* the while loop of storage_esp::cleanup_old_versions
SECleanupLoop(m, f, k, md, n, junk, io) ==
    IF md.version_count > STORAGE_MAX_VERSION_HISTORY
    THEN LET c == _cleanup_oldest_version(m, f, k, md, junk, io)
         IN  IF c.ok THEN SECleanupLoop(m, c.fs, k, c.md, n + 1, junk, io)
             ELSE [fs |-> c.fs, md |-> md, n |-> n]
    ELSE [fs |-> f, md |-> md, n |-> n]

\* storage_esp::cleanup_old_versions
se_cleanup_old_versions(m, f, k, junk, ub, F) ==
    IF ~m THEN [n |-> 0, fs |-> f, reset |-> FALSE]
    ELSE LET l == SECleanupLoop(m, f, k, _load_metadata(m, f, k, F["meta_read"]), 0, junk,
                                F["cleanup_delete"])
         IN  IF l.n > 0 /\ ub = "reset" THEN [n |-> 0, fs |-> l.fs, reset |-> TRUE]
             ELSE IF l.n > 0
             THEN [n |-> l.n, reset |-> FALSE,
                   fs |-> _save_metadata(m, l.fs, k, l.md, F["cleanup_meta_save"]).fs]
             ELSE [n |-> 0, fs |-> l.fs, reset |-> FALSE]

SEWriteFaultSites == {"meta_read", "arch_read", "arch_write", "evict_delete", "content_write",
                      "meta_save"}
SEWriteFaults == [n \in 0..MaxFaults |-> FaultChoices(SEWriteFaultSites, n)]

\* write(key, bytes)
SEWrite(k, d, ts, ub, F) ==
    /\ _load_metadata(is_mounted, fs, k, "ok").current_version < MaxVersion
    /\ _load_metadata(is_mounted, fs, k, "ok").version_count <= STORAGE_MAX_VERSION_HISTORY
    /\ LET w == write_versioned(is_mounted, fs, k, d, ts, ub, F)
       IN  /\ fs' = w.fs
           /\ is_mounted' = (is_mounted /\ ~w.reset)
    /\ faults' = faults + NumFaults(F)
    /\ UNCHANGED <<okWrites, clean, taskVars>>

\* cleanup(key)
SECleanup(k, junk, ub, F) ==
    /\ LET c == se_cleanup_old_versions(is_mounted, fs, k, junk, ub, F)
       IN  /\ fs' = c.fs
           /\ is_mounted' = (is_mounted /\ ~c.reset)
    /\ faults' = faults + NumFaults(F)
    /\ UNCHANGED <<okWrites, clean, taskVars>>

NextSE ==
    \/ \E ok \in BOOLEAN : Mount(ok)
    \/ \E ok \in BOOLEAN : Unmount(ok)
    \/ \E k \in Keys, d \in Contents, ts \in Times, ub \in StoreOutcomes,
          F \in SEWriteFaults[MaxFaults - faults] : SEWrite(k, d, ts, ub, F)
    \/ \E k \in Keys, junk \in Versions, ub \in StoreOutcomes,
          F \in CleanupFaults[MaxFaults - faults] : SECleanup(k, junk, ub, F)
    \/ \E k \in Keys, F \in EraseFaults[MaxFaults - faults] : Erase(k, F)

SpecSE == Init /\ [][NextSE]_vars

\* ------------------------------------------- storage_esp's lock protocol
\* Every public method of storage_esp opens with mutex_guard guard(storage_mutex):
\* xSemaphoreTake(storage_mutex, portMAX_DELAY) on a mutex made by
\* xSemaphoreCreateMutex, which is not recursive.  Here mutex is the holder of
\* storage_mutex, pc[t] the position of task t in the innermost method it is
\* running and loc[t] that method's frame.
LeafMethods == {"exists", "file_size", "write_file"}
NestingMethods == {"get_file_version", "restore_file_version", "read_file_alloc"}
Frame(fn, caller, k, v, d) == [fn |-> fn, caller |-> caller, key |-> k, version |-> v, data |-> d]

\* the method that fn goes on to call with the lock held, "none" when it
\* returns before that call; data is what it passes on
NestedCall(m, f, fr) ==
    CASE fr.fn = "get_file_version" ->
             \* if (!is_mounted || !exists(key))
             [fn |-> IF m THEN "exists" ELSE "none", data |-> << >>]
      [] fr.fn = "read_file_alloc" ->
             \* if (!is_mounted ...) return false; *size = file_size(key);
             [fn |-> IF m THEN "file_size" ELSE "none", data |-> << >>]
      [] fr.fn = "restore_file_version" ->
             \* stat and read of the version object, then write_file(key, ...)
             LET version_path == _get_version_path(fr.key, fr.version)
                 r == read_file(m, f, version_path, get_file_size(m, f, version_path), "ok")
             IN  IF m /\ file_exists(m, f, version_path) /\ r.ok
                 THEN [fn |-> "write_file", data |-> r.data]
                 ELSE [fn |-> "none", data |-> << >>]

\* a task calls a public method: it reaches the mutex_guard constructor
CallMethod(t, fn, k, v, d) ==
    /\ pc[t] = "idle" /\ ops < MaxOps
    /\ ops' = ops + 1
    /\ pc' = [pc EXCEPT ![t] = "take"]
    /\ loc' = [loc EXCEPT ![t] = Frame(fn, "none", k, v, d)]
    /\ UNCHANGED <<is_mounted, fs, faults, okWrites, clean, mutex, staleSave>>

\* mutex_guard::mutex_guard : xSemaphoreTake returns once the mutex is free
TakeMutex(t) ==
    /\ pc[t] = "take" /\ mutex = "free"
    /\ mutex' = t
    /\ pc' = [pc EXCEPT ![t] = "body"]
    /\ UNCHANGED <<is_mounted, fs, faults, okWrites, clean, loc, ops, staleSave>>

\* exists, file_size, write_file : the body, then ~mutex_guard gives the mutex
\* and control returns to the caller
LeafMethod(t) ==
    /\ pc[t] = "body" /\ loc[t].fn \in LeafMethods
    /\ fs' = IF loc[t].fn = "write_file"
             THEN write_file(is_mounted, fs, CurPath(loc[t].key), loc[t].data, "ok").fs
             ELSE fs
    /\ mutex' = "free"
    /\ IF loc[t].caller = "none"
       THEN /\ pc' = [pc EXCEPT ![t] = "idle"]
            /\ loc' = [loc EXCEPT ![t] = Idle]
       ELSE /\ pc' = [pc EXCEPT ![t] = "resumed"]
            /\ loc' = [loc EXCEPT ![t] = Frame(loc[t].caller, "none", loc[t].key,
                                                loc[t].version, loc[t].data)]
    /\ UNCHANGED <<is_mounted, faults, okWrites, clean, ops, staleSave>>

\* get_file_version, restore_file_version, read_file_alloc : with the lock
\* held, either return, or call another public method
NestingMethod(t) ==
    /\ pc[t] \in {"body", "resumed"} /\ loc[t].fn \in NestingMethods
    /\ LET c == NestedCall(is_mounted, fs, loc[t])
       IN  IF pc[t] = "resumed" \/ c.fn = "none"
           THEN /\ mutex' = "free"
                /\ pc' = [pc EXCEPT ![t] = "idle"]
                /\ loc' = [loc EXCEPT ![t] = Idle]
           ELSE /\ mutex' = mutex
                /\ pc' = [pc EXCEPT ![t] = "take"]
                /\ loc' = [loc EXCEPT ![t] = Frame(c.fn, loc[t].fn, loc[t].key,
                                                    loc[t].version, c.data)]
    /\ UNCHANGED <<is_mounted, fs, faults, okWrites, clean, ops, staleSave>>

\* write(key, bytes) of the built-in engine, run under the lock as one step
LockedWrite(k, d) ==
    /\ mutex = "free"
    /\ SEWrite(k, d, 1, "continue", AllOk)

NextLock ==
    \/ \E ok \in BOOLEAN : Mount(ok)
    \/ \E t \in Tasks, fn \in LeafMethods \cup NestingMethods, k \in Keys :
          \E v \in IF fn = "restore_file_version" THEN Versions ELSE {0},
             d \in IF fn = "write_file" THEN Contents ELSE {<< >>} : CallMethod(t, fn, k, v, d)
    \/ \E t \in Tasks : TakeMutex(t)
    \/ \E t \in Tasks : LeafMethod(t)
    \/ \E t \in Tasks : NestingMethod(t)
    \/ \E k \in Keys, d \in Contents : LockedWrite(k, d)

SpecLock == Init /\ [][NextLock]_vars

\* ------------------------------------------------- the checksum alone
\* Task t1 calls file_versioning::calculate_crc32 and task t2 calls
\* storage_esp::_calculate_crc32, each on a byte sequence of its own; loc[t]
\* is the argument and, once pc[t] = "done", the value returned.
Bytes == {0, 1, 65, 128, 255}
CrcInputs ==
    {<< >>} \cup {<<a>> : a \in Bytes} \cup {<<a, b>> : a, b \in Bytes}
        \cup {<<49, 50, 51>>}

InitCrc ==
    /\ is_mounted = FALSE
    /\ fs = [p \in Paths |-> NoFile]
    /\ faults = 0
    /\ okWrites = [k \in Keys |-> 0]
    /\ clean = [k \in Keys |-> TRUE]
    /\ mutex = "free"
    /\ pc = [t \in Tasks |-> "idle"]
    /\ loc \in [Tasks -> {[data |-> d, crc |-> [hi |-> 0, lo |-> 0]] : d \in CrcInputs}]
    /\ ops = 0
    /\ staleSave = FALSE

\* calculate_crc32(data, length) of file_versioning
FVChecksum(t) ==
    /\ t = "t1" /\ pc[t] = "idle"
    /\ loc' = [loc EXCEPT ![t].crc = calculate_crc32(loc[t].data)]
    /\ pc' = [pc EXCEPT ![t] = "done"]
    /\ UNCHANGED <<is_mounted, fs, faults, okWrites, clean, mutex, ops, staleSave>>

\* _calculate_crc32(data, length) of storage_esp
SEChecksum(t) ==
    /\ t = "t2" /\ pc[t] = "idle"
    /\ loc' = [loc EXCEPT ![t].crc = _calculate_crc32(loc[t].data)]
    /\ pc' = [pc EXCEPT ![t] = "done"]
    /\ UNCHANGED <<is_mounted, fs, faults, okWrites, clean, mutex, ops, staleSave>>

NextCrc ==
    \/ \E t \in Tasks : FVChecksum(t)
    \/ \E t \in Tasks : SEChecksum(t)

SpecCrc == InitCrc /\ [][NextCrc]_vars

\* ------------------------------------------- keys whose text overlaps
\* A key, the keys spelled like that key followed by ".v1" and by ".meta",
\* and a key that shares no text with them, on one byte store.
Names == {"k1", "k1.v1", "k1.meta", "k2"}
NamePaths == {CurPath(k) : k \in Names} \cup {get_metadata_path(k) : k \in Names}
             \cup {get_version_path(k, v) : k \in Names, v \in Versions}

\* the objects the engine keeps for a key
ObjectsOf(k) == {CurPath(k), get_metadata_path(k)} \cup {get_version_path(k, v) : v \in Versions}

\* the content object of the key is absent or holds plain bytes: the content
\* reads of the engine are modelled for these objects only
PlainContent(f, k) == f[CurPath(k)].kind \in {"none", "data"}

InitNames ==
    /\ is_mounted = FALSE
    /\ fs = [p \in NamePaths |-> NoFile]
    /\ faults = 0
    /\ okWrites = [k \in Keys |-> 0]
    /\ clean = [k \in Keys |-> TRUE]
    /\ mutex = "free"
    /\ pc = [t \in Tasks |-> "idle"]
    /\ loc = [t \in Tasks |-> Idle]
    /\ ops = 0
    /\ staleSave = FALSE

\* write(key, bytes): the hook, then the byte-store write
NameWrite(k, d) ==
    /\ ops < MaxOps
    /\ PlainContent(fs, k)
    /\ load_metadata(is_mounted, fs, k, "ok").current_version < MaxVersion
    /\ fs' = write(is_mounted, fs, k, d, AllOk).fs
    /\ ops' = ops + 1
    /\ UNCHANGED <<is_mounted, faults, okWrites, clean, mutex, pc, loc, staleSave>>

\* storage_esp::write_file called on the key directly
NameRawWrite(k, d, io) ==
    /\ ops < MaxOps
    /\ faults + (IF io = "ok" THEN 0 ELSE 1) <= MaxFaults
    /\ fs' = write_file(is_mounted, fs, get_full_path(k), d, io).fs
    /\ faults' = faults + (IF io = "ok" THEN 0 ELSE 1)
    /\ ops' = ops + 1
    /\ UNCHANGED <<is_mounted, okWrites, clean, mutex, pc, loc, staleSave>>

\* storage_esp::erase_file called on the key
NameErase(k) ==
    /\ ops < MaxOps
    /\ fs' = delete_file(is_mounted, fs, get_full_path(k), "ok").fs
    /\ ops' = ops + 1
    /\ UNCHANGED <<is_mounted, faults, okWrites, clean, mutex, pc, loc, staleSave>>

NextNames ==
    \/ \E ok \in BOOLEAN : Mount(ok)
    \/ \E ok \in BOOLEAN : Unmount(ok)
    \/ \E k \in Names, d \in Contents : NameWrite(k, d)
    \/ \E k \in Names, d \in Contents, io \in WriteOutcomes : NameRawWrite(k, d, io)
    \/ \E k \in Names : NameErase(k)

SpecNames == InitNames /\ [][NextNames]_vars

\* ================================================================ claims
\* the registered history of a record
History(md) == {md.versions[i] : i \in 0..(md.version_count - 1)}
\* the versions of a key that have an archive object on the byte store
Archived(f, k) == {v \in Versions : f[get_version_path(k, v)].kind # "none"}
Min(a, b) == IF a < b THEN a ELSE b
\* the length of the longest content the model writes
MaxLen == CHOOSE n \in {Len(d) : d \in Contents} : \A d \in Contents : Len(d) <= n

\* C1: after n successful writes to a fresh key, with no failure and no other
\* operation on the key, current_version(key) = n.
C1_VersionCountsWrites ==
    \A k \in Keys : (clean[k] /\ is_mounted) => get_file_version(is_mounted, fs, k) = okWrites[k]

C1_Witness ==
    \E k \in Keys : clean[k] /\ is_mounted /\ okWrites[k] = 3
                    /\ get_file_version(is_mounted, fs, k) = 3

\* C2: after n successful writes to a fresh key the persisted history holds
\* min(n-1, H) entries, the most recent prior versions.
C2_HistoryAfterWrites ==
    \A k \in Keys : (clean[k] /\ okWrites[k] >= 1) =>
        LET md == Persisted(fs, k)
            n == okWrites[k]
        IN  /\ md.version_count = Min(n - 1, H)
            /\ History(md) = (n - Min(n - 1, H))..(n - 1)

\* C3: at most H archived revision objects of a key exist on the byte store.
C3_AtMostHArchives ==
    \A k \in Keys : Cardinality(Archived(fs, k)) <= H

\* C4: in every reachable state the history length of every key is at most
\* STORAGE_MAX_VERSION_HISTORY, and every write registers the replaced version
\* at an index inside versions[0 .. STORAGE_MAX_VERSION_HISTORY - 1], also
\* when the eviction's delete of the oldest archive fails.
C4_HistoryWithinCapacity ==
    \A k \in Keys :
        /\ _load_metadata(TRUE, fs, k, "ok").version_count <= STORAGE_MAX_VERSION_HISTORY
        /\ \A d \in Contents, ts \in Times, F \in SEWriteFaults[MaxFaults - faults] :
               write_versioned(is_mounted, fs, k, d, ts, "continue", F).store
                   < STORAGE_MAX_VERSION_HISTORY

\* C11: no task waits for storage_mutex while it holds storage_mutex itself
\* (no method calls another locking method with the lock held), so every
\* invoked operation can release the lock and return.
C11_NoNestedAcquire ==
    \A t \in Tasks : ~(pc[t] = "take" /\ mutex = t)

\* C12: the current_version of a key that a reader observes never decreases
\* from one state to the next, whatever operation (write, failed write,
\* restore, erase, cleanup) makes the step, as long as the store stays mounted.
C12_VersionNeverDecreases ==
    [][\A k \in Keys : (is_mounted /\ is_mounted') =>
            get_file_version(is_mounted', fs', k) >= get_file_version(is_mounted, fs, k)]_vars

\* C13: between operations the record of a key describes its current
\* content: file_size is the byte length of the object under the unsuffixed
\* key and checksum is the CRC-32 of its bytes, after failed writes too.
C13_MetadataDescribesContent ==
    \A k \in Keys : file_exists(is_mounted, fs, CurPath(k)) =>
        /\ Persisted(fs, k).file_size = Len(fs[CurPath(k)].bytes)
        /\ Persisted(fs, k).checksum = calculate_crc32(fs[CurPath(k)].bytes)

\* C14: a successful restore(key, v) archives what it replaces: the bytes that
\* were current before it are afterwards read back under the old
\* current_version, and the new current_version is greater than the old one.
C14_RestoreArchivesReplaced ==
    \A k \in Keys, v \in Versions :
        LET old == Persisted(fs, k).current_version
            before == fs[CurPath(k)]
            r == restore_file_version(is_mounted, fs, k, v, AllOk)
        IN  (file_exists(is_mounted, fs, CurPath(k)) /\ old > 0 /\ r.ok) =>
                /\ read_file_version(is_mounted, r.fs, k, old, Len(before.bytes))
                       = [ok |-> TRUE, data |-> before.bytes]
                /\ Persisted(r.fs, k).current_version > old

\* C15: restore(key, 0) returns false and changes no object of the store, in
\* every reachable state.
C15_RestoreZeroRejected ==
    \A k \in Keys :
        LET r == restore_file_version(is_mounted, fs, k, 0, AllOk)
        IN  ~r.ok /\ r.fs = fs

\* C16: for a version v whose object key.v<v> is not on the byte store,
\* read(key, v, .) and restore(key, v) return false and every object of the
\* store stays as it was.
C16_MissingVersionFails ==
    \A k \in Keys, v \in Versions, F \in RestoreFaults[MaxFaults - faults] :
        fs[get_version_path(k, v)].kind = "none" =>
            LET r == restore_file_version(is_mounted, fs, k, v, F)
            IN  /\ ~r.ok /\ r.fs = fs
                /\ v > 0 => \A n \in 0..MaxLen : ~read_file_version(is_mounted, fs, k, v, n).ok

C16_Witness ==
    \E k \in Keys, v \in 1..MaxVersion, w \in 1..MaxVersion :
        /\ is_mounted /\ file_exists(is_mounted, fs, CurPath(k))
        /\ fs[get_version_path(k, v)].kind = "none"
        /\ fs[get_version_path(k, w)].kind = "data"
        /\ ~restore_file_version(is_mounted, fs, k, v, AllOk).ok
        /\ restore_file_version(is_mounted, fs, k, w, AllOk).ok

\* the caller's buffers: zero-filled, of every size up to the longest content
Buffers == {[i \in 1..n |-> 0] : n \in 0..MaxLen}

\* C17: a read(key, version, buf) that returns false leaves the caller's
\* buffer as it was, whether the target is absent or shorter than the buffer.
C17_FailedReadKeepsBuffer ==
    \A k \in Keys, version \in Versions, buf \in Buffers :
        LET r == read_file_version_into(is_mounted, fs, k, version, buf)
            e == se_read_file_version(is_mounted, fs, k, version, buf)
        IN  /\ ~r.ok => r.buf = buf
            /\ ~e.ok => e.buf = buf

\* C18: the listing of an existing key has exactly one entry with is_current,
\* that entry comes first, and the entries after it are in strictly
\* descending version order; also after a direct archive_current_version.
C18_CurrentFirstThenDescending ==
    \A k \in Keys : file_exists(is_mounted, fs, CurPath(k)) =>
        \A l \in list_file_versions(is_mounted, fs, k) :
            /\ Len(l) >= 1
            /\ l[1].is_current
            /\ \A i \in 2..Len(l) : ~l[i].is_current
            /\ \A i \in 2..(Len(l) - 1) : l[i].version > l[i + 1].version

\* C19: the listing has an archived entry for v exactly when v is a (non-zero)
\* history entry whose object key.v<v> exists on the byte store.
C19_ListedIffArchiveExists ==
    \A k \in Keys : file_exists(is_mounted, fs, CurPath(k)) =>
        \A l \in list_file_versions(is_mounted, fs, k) :
            {l[i].version : i \in {j \in 1..Len(l) : ~l[j].is_current}}
                = {v \in History(Persisted(fs, k)) \ {0} :
                       fs[get_version_path(k, v)].kind # "none"}

\* no object of the key is on the byte store
NoObjects(f, k) ==
    /\ f[CurPath(k)].kind = "none" /\ f[get_metadata_path(k)].kind = "none"
    /\ \A v \in Versions : f[get_version_path(k, v)].kind = "none"

\* C20: a key that was never written has current_version 0 and an empty
\* listing.
C20_NeverWrittenIsEmpty ==
    \A k \in Keys : ((clean[k] /\ okWrites[k] = 0) \/ NoObjects(fs, k)) =>
        /\ get_file_version(is_mounted, fs, k) = 0
        /\ list_file_versions(is_mounted, fs, k) = {<< >>}

C20_Witness ==
    \E k \in Keys : /\ is_mounted /\ ~clean[k] /\ faults = 0 /\ NoObjects(fs, k)
                    /\ get_file_version(is_mounted, fs, k) = 0
                    /\ list_file_versions(is_mounted, fs, k) = {<< >>}

\* the failure patterns that can still be injected in the current state
WriteFaultsNow == WriteFaults[MaxFaults - faults]
\* an operation met no failure except possibly at the sites in S
OnlyAt(F, S) == \A s \in Sites \ S : F[s] = "ok"

\* C21: current_version is 0 exactly for a key that was never successfully
\* written: a write that returns true leaves current_version >= 1, in the
\* persisted record and as get_file_version returns it, and a write that
\* returns false on a key without any object leaves both at 0.
C21_ZeroIffNeverWritten ==
    \A k \in Keys, d \in Contents, F \in WriteFaults[MaxFaults - faults] :
        LET w == write(is_mounted, fs, k, d, F)
        IN  /\ w.ok => /\ Persisted(w.fs, k).current_version >= 1
                        /\ get_file_version(is_mounted, w.fs, k) >= 1
            /\ (NoObjects(fs, k) /\ ~w.ok) =>
                        /\ Persisted(w.fs, k).current_version = 0
                        /\ get_file_version(is_mounted, w.fs, k) = 0

\* the version numbers a caller may remember
LastKnown == 0..(MaxVersion + 1)

\* C22: has_changed(key, last_known_version) is true exactly when
\* current_version(key) > last_known_version; it is false for a
\* last_known_version equal to or greater than the current version.
C22_ChangedIffGreater ==
    \A k \in Keys, last_known_version \in LastKnown :
        file_has_changed(is_mounted, fs, k, last_known_version)
            <=> (get_file_version(is_mounted, fs, k) > last_known_version)

C22_Witness ==
    \E k \in Keys : /\ get_file_version(is_mounted, fs, k) = 2
                    /\ file_has_changed(is_mounted, fs, k, 1)
                    /\ ~file_has_changed(is_mounted, fs, k, 2)
                    /\ ~file_has_changed(is_mounted, fs, k, 3)

\* the registered history of a storage_esp record, as persisted
SEPersisted(f, k) == _load_metadata(TRUE, f, k, "ok")

\* cleanup(key) met no failure except possibly in its deletes
CleanupFaultsNow == {F \in CleanupFaults[MaxFaults - faults] : OnlyAt(F, {"cleanup_delete"})}

C24_EraseThenCleanupRemovesAll ==
    \A k \in Keys :
        LET e == delete_file(is_mounted, fs, CurPath(k), "ok")
            c == cleanup_old_versions(is_mounted, e.fs, k, AllOk)
        IN  e.ok => /\ Archived(c.fs, k) = {}
                    /\ c.fs[get_metadata_path(k)].kind = "none"

\* on an unmounted store the queries, restore, archive and cleanup return
\* false, zero or the empty listing and leave every object as it is
UnmountedOpsFail(k) ==
    /\ get_file_version(is_mounted, fs, k) = 0
    /\ ~get_file_version_info(is_mounted, fs, k).ok
    /\ list_file_versions(is_mounted, fs, k) = {<< >>}
    /\ \A version \in Versions, n \in 0..MaxLen :
           ~read_file_version(is_mounted, fs, k, version, n).ok
    /\ \A version \in Versions, F \in RestoreFaults[MaxFaults - faults] :
           restore_file_version(is_mounted, fs, k, version, F) = [ok |-> FALSE, fs |-> fs]
    /\ \A F \in ArchiveFaults[MaxFaults - faults] :
           LET a == archive_current_version(is_mounted, fs, k, F)
           IN  ~a.ok /\ a.fs = fs
    /\ \A last_known_version \in LastKnown :
           ~file_has_changed(is_mounted, fs, k, last_known_version)
    /\ \A F \in CleanupFaults[MaxFaults - faults] :
           cleanup_old_versions(is_mounted, fs, k, F) = [n |-> 0, fs |-> fs]

\* C25 as stated: on an unmounted store every engine operation, the write
\* hook included, returns a false / zero / empty result and performs no
\* byte-store write or delete.
C25_UnmountedAllFail ==
    ~is_mounted => \A k \in Keys :
        /\ UnmountedOpsFail(k)
        /\ \A d \in Contents, F \in WriteFaultsNow :
               LET h == on_before_write(is_mounted, fs, k, d, F)
               IN  ~h.ret /\ h.fs = fs

\* C25, amended: on an unmounted store every engine operation returns a
\* false / zero / empty result and performs no byte-store write or delete,
\* except that the write hook returns true (it lets the write go on to the
\* byte store); the hook touches no object, and write(key, bytes) as a whole
\* returns false and changes nothing.
C25_UnmountedFailHookPasses ==
    ~is_mounted => \A k \in Keys :
        /\ UnmountedOpsFail(k)
        /\ \A d \in Contents, F \in WriteFaultsNow :
               LET h == on_before_write(is_mounted, fs, k, d, F)
                   w == write(is_mounted, fs, k, d, F)
               IN  /\ h.ret /\ h.fs = fs
                   /\ ~w.ok /\ w.fs = fs

\* an unmounted store that holds content, a record and an archive
C25_Witness ==
    \E k \in Keys : /\ ~is_mounted
                    /\ fs[CurPath(k)] = Data(<<65, 66>>)
                    /\ Persisted(fs, k).current_version = 2
                    /\ fs[get_version_path(k, 1)] = Data(<<65>>)
                    /\ ~read_file_version(is_mounted, fs, k, 1, 1).ok
                    /\ ~write(is_mounted, fs, k, <<65>>, AllOk).ok

\* C26: after H + 2 writes to a fresh key (versions 1 .. H + 1 were replaced
\* and archived in turn) the 2 oldest archived versions are absent from the
\* history and from the byte store, and the later archived versions, up to
\* the most recent H of them, are present in both.
C26_TwoOldestEvicted ==
    \A k \in Keys : (clean[k] /\ okWrites[k] = H + 2) =>
        /\ \A v \in 1..2 : v \notin History(Persisted(fs, k)) /\ v \notin Archived(fs, k)
        /\ \A v \in 3..(H + 1) : v \in History(Persisted(fs, k)) /\ v \in Archived(fs, k)

\* C27: no archived revision for version number 0 ever exists: the object
\* key.v0 is not on the byte store and 0 is not a registered history entry.
C27_NoVersionZeroArchive ==
    \A k \in Keys : /\ fs[get_version_path(k, 0)].kind = "none"
                    /\ 0 \notin History(Persisted(fs, k))

SampleRecords(default) ==
    {[default EXCEPT !.current_version = cv, !.version_count = n,
                     !.versions = [i \in 0..(H - 1) |-> IF i < n THEN i + 1 ELSE 0]] :
         cv \in 1..MaxVersion, n \in 0..H}

\* the objects a metadata path may hold: none, a truncated record, a whole
\* file_versioning record, a whole storage_esp record, a longer object
MetaObjects ==
    {NoFile, TruncFile} \cup {MetaFile(md) : md \in SampleRecords(DefaultMeta)}
        \cup {SEMetaFile(md) : md \in SampleRecords(file_version_metadata)}
        \cup {LongFile(md) : md \in SampleRecords(file_version_metadata)}

\* C29: loading metadata yields the default record whenever the metadata
\* object is absent or its length is not the encoded size of the record,
\* shorter or longer, in file_versioning and in storage_esp.
C29_WrongLengthLoadsDefault ==
    \A k \in Keys, obj \in MetaObjects :
        LET f == [fs EXCEPT ![get_metadata_path(k)] = obj]
        IN  /\ FileLen(obj) # MetaSize => load_metadata(TRUE, f, k, "ok") = DefaultMeta
            /\ FileLen(obj) # SEMetaSize =>
                   _load_metadata(TRUE, f, k, "ok") = file_version_metadata

\* the number whose low n bits are the low n bits of x in reverse order
RECURSIVE Reflect(_, _)
Reflect(x, n) == IF n = 0 THEN 0 ELSE (x % 2) * (2 ^ (n - 1)) + Reflect(x \div 2, n - 1)

\* one step of the division by the generator 0x04C11DB7, most significant bit first
RefShift(c) ==
    LET sh == [hi |-> ((c.hi * 2) % 65536) + (c.lo \div 32768), lo |-> (c.lo * 2) % 65536]
    IN  IF c.hi >= 32768 THEN [hi |-> Xor(sh.hi, 1217), lo |-> Xor(sh.lo, 7607)] ELSE sh

RECURSIVE RefRounds(_, _)
RefRounds(c, j) == IF j = 0 THEN c ELSE RefRounds(RefShift(c), j - 1)

RECURSIVE RefBytes(_, _, _)
RefBytes(c, data, i) ==
    IF i > Len(data) THEN c
    ELSE RefBytes(RefRounds([hi |-> Xor(c.hi, Reflect(data[i], 8) * 256), lo |-> c.lo], 8),
                  data, i + 1)

\* CRC-32/ISO-HDLC by its definition: generator 0x04C11DB7, initial value
\* 0xFFFFFFFF, input bytes and result reflected, final XOR 0xFFFFFFFF
Crc32IsoHdlc(data) ==
    LET c == RefBytes([hi |-> 65535, lo |-> 65535], data, 1)
    IN  [hi |-> Xor(Reflect(c.lo, 16), 65535), lo |-> Xor(Reflect(c.hi, 16), 65535)]

\* C30: calculate_crc32 and _calculate_crc32 return the CRC-32/ISO-HDLC value
\* of their argument, within 32 bits: 0 for the empty sequence, 0x884863D2 for
\* "123"; equal arguments give equal results.
C30_ChecksumIsCrc32 ==
    /\ \A t \in Tasks : pc[t] = "done" =>
           /\ loc[t].crc = Crc32IsoHdlc(loc[t].data)
           /\ loc[t].crc.hi \in 0..65535 /\ loc[t].crc.lo \in 0..65535
           /\ loc[t].data = << >> => loc[t].crc = [hi |-> 0, lo |-> 0]
           /\ loc[t].data = <<49, 50, 51>> =>
                  loc[t].crc = [hi |-> 34888, lo |-> 25554]
    /\ (pc["t1"] = "done" /\ pc["t2"] = "done" /\ loc["t1"].data = loc["t2"].data) =>
           loc["t1"].crc = loc["t2"].crc

\* both implementations have returned the checksum of the bytes 0x41 0x80
C30_Witness ==
    \A t \in Tasks : /\ pc[t] = "done" /\ loc[t].data = <<65, 128>>
                     /\ loc[t].crc = Crc32IsoHdlc(<<65, 128>>)
                     /\ loc[t].crc # [hi |-> 0, lo |-> 0]

\* the indices of the registered non-zero entries of a record
NonZeroSlots(md) == {i \in 0..(md.version_count - 1) : md.versions[i] # 0}
\* the first index, in history order, that holds the smallest non-zero version
OldestSlot(md) ==
    CHOOSE i \in NonZeroSlots(md) :
        \A j \in NonZeroSlots(md) :
            md.versions[i] < md.versions[j] \/ (md.versions[i] = md.versions[j] /\ i <= j)
\* the history of a record as a sequence, without the entry at index x
HistoryWithout(md, x) ==
    [n \in 1..(md.version_count - 1) |-> md.versions[IF n - 1 < x THEN n - 1 ELSE n]]

\* C31: on a history with a non-zero entry, eviction selects the first entry
\* with the smallest non-zero version (never a zero slot, also at index 0),
\* deletes its archive, removes it from the history and keeps the order of
\* the remaining entries.
C31_EvictsSmallestNonZero ==
    \A k \in Keys :
        LET md == Persisted(fs, k)
            c == cleanup_oldest_version(is_mounted, fs, k, md, "ok")
            x == FindOldest(md.versions, md.version_count, 1, 0)
        IN  (is_mounted /\ md.version_count >= 1 /\ NonZeroSlots(md) # {}) =>
                /\ x = OldestSlot(md)
                /\ c.ok =>
                       /\ c.fs = [fs EXCEPT ![get_version_path(k, md.versions[OldestSlot(md)])] = NoFile]
                       /\ c.md.version_count = md.version_count - 1
                       /\ [n \in 1..c.md.version_count |-> c.md.versions[n - 1]]
                              = HistoryWithout(md, OldestSlot(md))

\* the registered history of a record, in slot order
HistorySeq(md) == [n \in 1..md.version_count |-> md.versions[n - 1]]

\* C32: an archive at capacity (version_count = H, current_version not yet
\* registered, the oldest archive deleted successfully) leaves the previous
\* history without its oldest entry and with current_version appended last;
\* version_count is H again.
C32_ArchiveAtCapacityEvictsOne ==
    \A k \in Keys :
        LET md == Persisted(fs, k)
            a == archive_current_version(is_mounted, fs, k, AllOk)
            after == Persisted(a.fs, k)
        IN  (/\ is_mounted /\ a.ok
             /\ md.version_count = STORAGE_MAX_VERSION_HISTORY
             /\ md.current_version \notin History(md)
             /\ 0 \notin History(md)
             /\ fs[get_version_path(k, md.versions[OldestSlot(md)])].kind # "none") =>
                /\ after.version_count = STORAGE_MAX_VERSION_HISTORY
                /\ HistorySeq(after)
                       = HistoryWithout(md, OldestSlot(md)) \o <<md.current_version>>

\* C33: in every reachable state the first version_count slots of a key's
\* persisted history hold no non-zero version number twice.
C33_NoDuplicateEntries ==
    \A k \in Keys :
        LET md == Persisted(fs, k)
        IN  \A i, j \in NonZeroSlots(md) :
                md.versions[i] = md.versions[j] => i = j

C33_Witness ==
    \E k \in Keys :
        LET md == Persisted(fs, k)
        IN  /\ md.version_count = STORAGE_MAX_VERSION_HISTORY
            /\ 0 \notin History(md)
            /\ md.current_version \in History(md)

\* C34: while no byte-store operation has failed, every non-zero entry of a
\* key's persisted history has an existing archive object.
C34_EntriesHaveObjects ==
    \A k \in Keys :
        LET md == Persisted(fs, k)
        IN  faults = 0 =>
                \A i \in NonZeroSlots(md) :
                    fs[get_version_path(k, md.versions[i])].kind # "none"

\* C35: every non-zero entry of a key's persisted history is below the
\* persisted current_version and the entries are in increasing order.
C35_EntriesBelowCurrentAscending ==
    \A k \in Keys :
        LET md == Persisted(fs, k)
        IN  /\ \A i \in NonZeroSlots(md) : md.versions[i] < md.current_version
            /\ \A i, j \in NonZeroSlots(md) : i < j => md.versions[i] < md.versions[j]

\* C36: when the history is full and the archive object of its oldest entry
\* is absent, an archive of a new version still removes the oldest entry and
\* appends the new version, keeping every newer entry.
C36_EvictsEntryWithoutObject ==
    \A k \in Keys :
        LET md == Persisted(fs, k)
            a == archive_current_version(is_mounted, fs, k, AllOk)
            after == Persisted(a.fs, k)
        IN  (/\ is_mounted /\ a.ok
             /\ md.version_count = STORAGE_MAX_VERSION_HISTORY
             /\ md.current_version \notin History(md)
             /\ 0 \notin History(md)
             /\ fs[get_version_path(k, md.versions[OldestSlot(md)])].kind = "none") =>
                HistorySeq(after) = HistoryWithout(md, OldestSlot(md)) \o <<md.current_version>>

\* C37: an archive object key.v<v> holds the bytes supplied by the write that
\* was assigned version v, also when a store call of that write failed: a
\* write of d that advances current_version to v, followed by a write that
\* creates key.v<v>, leaves d in key.v<v>.
C37_ArchiveHoldsSuppliedBytes ==
    \A k \in Keys, d \in Contents, d2 \in Contents, F \in WriteFaultsNow :
        LET before == Persisted(fs, k)
            w1 == write(is_mounted, fs, k, d, F)
            v == Persisted(w1.fs, k).current_version
            w2 == write(is_mounted, w1.fs, k, d2, AllOk)
            p == get_version_path(k, v)
        IN  (/\ is_mounted
             /\ before.current_version < MaxVersion
             /\ v = before.current_version + 1
             /\ w1.fs[p].kind = "none"
             /\ w2.fs[p].kind # "none") =>
                w2.fs[p] = Data(d)

\* C38: an operation on one key never affects another key, also when the
\* other key is spelled like the first followed by ".v<N>" or ".meta": a
\* write leaves every object of every other key as it was, and a byte-store
\* write of one key leaves what read_file_version returns for every other
\* key and version as it was.
C38_KeysIsolated ==
    \A a \in Names, b \in Names, d \in Contents :
        LET w == write(is_mounted, fs, a, d, AllOk)
            r == write_file(is_mounted, fs, get_full_path(a), d, "ok")
        IN  a # b =>
                /\ (is_mounted /\ PlainContent(fs, a)
                      /\ load_metadata(is_mounted, fs, a, "ok").current_version < MaxVersion) =>
                        \A p \in ObjectsOf(b) : w.fs[p] = fs[p]
                /\ \A v \in Versions, buf \in Contents :
                        se_read_file_version(is_mounted, r.fs, b, v, buf)
                            = se_read_file_version(is_mounted, fs, b, v, buf)

\* C39: when two tasks write the same existing key at the same time and both
\* writes return true, current_version has advanced by two, the content is that of
\* the write with the higher version number, and the content of the other
\* write is archived under its number.  Both hooks have returned and both
\* content writes are still to come; they may run in either order.
C39_NoLostUpdate ==
    \A lo \in Tasks, hi \in Tasks :
        (/\ is_mounted
         /\ pc[lo] = "w_content" /\ pc[hi] = "w_content"
         /\ loc[lo].key = loc[hi].key
         /\ file_exists(is_mounted, fs, CurPath(loc[lo].key))
         /\ 1 <= loc[lo].md.current_version
         /\ loc[lo].md.current_version < loc[hi].md.current_version) =>
            LET k == loc[lo].key
                wl == write_file(is_mounted, fs, CurPath(k), loc[lo].data, "ok")
                wlh == write_file(is_mounted, wl.fs, CurPath(k), loc[hi].data, "ok")
                wh == write_file(is_mounted, fs, CurPath(k), loc[hi].data, "ok")
                whl == write_file(is_mounted, wh.fs, CurPath(k), loc[lo].data, "ok")
            IN  \A f \in {wlh.fs, whl.fs} :
                    /\ Persisted(f, k).current_version = loc[lo].md.current_version + 1
                    /\ Persisted(f, k).current_version = loc[hi].md.current_version
                    /\ f[CurPath(k)] = Data(loc[hi].data)
                    /\ f[get_version_path(k, loc[lo].md.current_version)] = Data(loc[lo].data)

\* C40: content of length 0 is versioned like any other content: a write over
\* a key whose content exists and is empty archives the empty content under
\* its version number and registers it, list_file_versions lists it, and a
\* restore of that version succeeds and leaves the content empty.
C40_EmptyContentVersioned ==
    \A k \in Keys, d \in Contents :
        LET v == Persisted(fs, k).current_version
            w == write(is_mounted, fs, k, d, AllOk)
            r == restore_file_version(is_mounted, w.fs, k, v, AllOk)
        IN  (/\ is_mounted
             /\ fs[CurPath(k)] = Data(<< >>)
             /\ 1 <= v /\ v < MaxVersion) =>
                /\ w.fs[get_version_path(k, v)] = Data(<< >>)
                /\ v \in History(Persisted(w.fs, k))
                /\ \A l \in list_file_versions(is_mounted, w.fs, k) :
                        \E i \in 1..Len(l) : l[i].version = v /\ ~l[i].is_current
                /\ r.ok
                /\ r.fs[CurPath(k)] = Data(<< >>)

\* C5: a successful write followed immediately by read(key, 0, buf) with buf of
\* the written length returns true and delivers the bytes just written.
C5_ReadAfterWrite ==
    \A k \in Keys, d \in Contents, F \in WriteFaultsNow :
        LET w == write(is_mounted, fs, k, d, F)
        IN  w.ok => read_file_version(is_mounted, w.fs, k, 0, Len(d)) = [ok |-> TRUE, data |-> d]

C5_Witness ==
    \E k \in Keys : /\ clean[k] /\ okWrites[k] = 2 /\ is_mounted
                    /\ fs[CurPath(k)] = Data(<<65, 66>>)
                    /\ read_file_version(is_mounted, fs, k, 0, 2) = [ok |-> TRUE, data |-> <<65, 66>>]

\* C6: restore(key, v) of an archived version whose object exists makes
\* current_version increase by exactly 1, and read(key, 0, .) then returns the
\* bytes of version v.  (Stated for a run without failures and an archive
\* that holds at least one byte.)
C6_RestoreCreatesVersion ==
    \A k \in Keys, v \in Versions \ {0} :
        LET r == restore_file_version(is_mounted, fs, k, v, AllOk)
            a == fs[get_version_path(k, v)]
        IN  (is_mounted /\ faults = 0 /\ a.kind = "data" /\ FileLen(a) > 0) =>
                /\ r.ok
                /\ get_file_version(is_mounted, r.fs, k) = get_file_version(is_mounted, fs, k) + 1
                /\ read_file_version(is_mounted, r.fs, k, 0, FileLen(a)) = [ok |-> TRUE, data |-> a.bytes]

\* C8: when the byte-store write of the new content fails, write returns false
\* and the persisted metadata record is what it was before the write.
C8_FailedWriteKeepsMetadata ==
    \A k \in Keys, d \in Contents, F \in WriteFaultsNow :
        LET w == write(is_mounted, fs, k, d, F)
        IN  (is_mounted /\ OnlyAt(F, {"content_write"}) /\ F["content_write"] # "ok" /\ Len(d) > 0) =>
                /\ ~w.ok
                /\ w.fs[get_metadata_path(k)] = fs[get_metadata_path(k)]

\* C9: a failed archive copy does not abort the write: the new content is
\* persisted, current_version grows by exactly 1 and write returns true.
C9_ArchiveFailureNotFatal ==
    \A k \in Keys, d \in Contents, F \in WriteFaultsNow :
        LET w == write(is_mounted, fs, k, d, F)
        IN  (/\ is_mounted
             /\ OnlyAt(F, {"arch_read", "arch_write"})
             /\ on_before_write(is_mounted, fs, k, d, F).arch = "copy_failed") =>
                /\ w.ok
                /\ w.fs[CurPath(k)] = Data(d)
                /\ Persisted(w.fs, k).current_version = Persisted(fs, k).current_version + 1

\* the archive of version 1 was cut short, and the write that replaced it went through
C9_Witness ==
    \E k \in Keys : /\ is_mounted
                    /\ fs[get_version_path(k, 1)] = Data(<< >>)
                    /\ fs[CurPath(k)] = Data(<<65, 66>>)
                    /\ Persisted(fs, k).current_version = 2

\* C7: within one write the metadata record carrying the incremented
\* current_version is not persisted before the new content is.
C7_ContentBeforeMetadata ==
    \A t \in Tasks :
        (pc[t] = "w_content" /\ is_mounted) =>
            fs[get_metadata_path(loc[t].key)] # MetaFile(loc[t].md)

\* C10: operations of different tasks never interleave their byte-store steps,
\* and no operation saves a metadata copy that a concurrent operation superseded.
C10_Serialized ==
    is_mounted =>
        /\ \A t \in Tasks, u \in Tasks : (InFlight(t) /\ InFlight(u)) => t = u
        /\ ~staleSave

====
